---- MODULE Spec2Model ----
(***************************************************************************)
(* Model of main.py: the Streamlit dashboard over mission_launches.csv.    *)
(*                                                                         *)
(* A string that the program splits or looks up (Location, Country) is a   *)
(* sequence of atoms: the atom "," is a comma, the atom " " a blank, any   *)
(* other atom a run of characters holding no comma and not starting with a *)
(* blank.  The two-character separator ', ' is the atom "," followed by    *)
(* the atom " ".  Organisation and Mission_Status are only compared for    *)
(* equality and are plain strings.                                         *)
(*                                                                         *)
(* A raw Date field is the record [y, m, d] of the numbers written in it;  *)
(* a parsed Date is the number y*10000 + m*100 + d, and NaT is 0.          *)
(***************************************************************************)
EXTENDS Integers, Sequences, FiniteSets, TLC

\* ------------------------------------------------------------------ bounds

\* most rows of the csv file in the status-centred datasets
MaxRowsStatus == 3
\* most rows of the csv file in the country-centred datasets
MaxRowsCountry == 2
\* most atoms of a Location in the location-centred datasets
MaxLocLen == 5
\* most organisations in the organisation-centred datasets
NumOrgs == 11
\* most times the csv file is read before the session is left alone
MaxReads == 2

\* ------------------------------------------------------- values of pandas

\* a missing string cell; read_csv also reads the field 'NaN' as missing
NaN == <<"NaN">>
NaT == 0
None == [kind |-> "None"]

Seg(s, a, b) == SubSeq(s, a, b)

Min2(a, b) == IF a <= b THEN a ELSE b

\* ------------------------------------------------------------ load_data

\* positions where the separator ', ' starts
SepAt(s, i) == i < Len(s) /\ s[i] = "," /\ s[i + 1] = " "

\* str.split(', '): left to right, cutting at every separator
RECURSIVE str_split(_)
str_split(s) ==
    IF \E i \in 1..Len(s) : SepAt(s, i)
    THEN LET i == CHOOSE k \in 1..Len(s) :
                     SepAt(s, k) /\ \A j \in 1..(k - 1) : ~SepAt(s, j)
         IN <<Seg(s, 1, i - 1)>> \o str_split(Seg(s, i + 2, Len(s)))
    ELSE <<s>>

\* .str[0] in the place of .str[-1]
str_first(parts) == parts[1]

\* .str[-1]
str_last(parts) == parts[Len(parts)]

\* df_data['Location'].str.split(', ').str[-1]; a missing Location stays missing
RawCountry(loc) == IF loc = NaN THEN NaN ELSE str_last(str_split(loc))

RussianFederation == <<"Russian Federation">>
Kazakhstan == <<"Kazakhstan">>
USA == <<"USA">>
USSR == <<"USSR">>
China == <<"China">>
IranIR == <<"Iran", ",", " ", "Islamic Republic of">>
KoreaDPR == <<"Korea", ",", " ", "Democratic People's Republic of">>
KoreaRep == <<"Korea", ",", " ", "Republic of">>
UKGBNI == <<"United Kingdom of Great Britain and Northern Ireland">>

\* the dict update, as its items
update ==
    << <<(<<"Russia">>), RussianFederation>>,
       <<(<<"New Mexico">>), USA>>,
       <<(<<"Yellow Sea">>), China>>,
       <<(<<"Shahrud Missile Test Site">>), IranIR>>,
       <<(<<"Pacific Missile Range Facility">>), USA>>,
       <<(<<"Barents Sea">>), RussianFederation>>,
       <<(<<"Gran Canaria">>), USA>>,
       <<(<<"Marshall Islands">>), USA>>,
       <<(<<"Iran">>), IranIR>>,
       <<(<<"North Korea">>), KoreaDPR>>,
       <<(<<"South Korea">>), KoreaRep>>,
       <<(<<"United Kingdom">>), UKGBNI>>,
       <<(<<"Pacific Ocean">>), USA>> >>

Keys(items) == {items[i][1] : i \in 1..Len(items)}

\* Series.replace(dict) on one cell: a cell equal to a key becomes its value
replace(x, items) ==
    IF x \in Keys(items)
    THEN items[CHOOSE i \in 1..Len(items) : items[i][1] = x][2]
    ELSE x

\* the entries of iso3166's countries this model carries, name and alpha3
reference ==
    << <<RussianFederation, "RUS">>,
       <<Kazakhstan, "KAZ">>,
       <<China, "CHN">>,
       <<IranIR, "IRN">>,
       <<KoreaDPR, "PRK">>,
       <<KoreaRep, "KOR">>,
       <<UKGBNI, "GBR">>,
       <<(<<"United States of America">>), "USA">>,
       <<(<<"France">>), "FRA">>,
       <<(<<"Japan">>), "JPN">> >>

NOT_FOUND == "NOT_FOUND"

Alpha3Codes == {reference[i][2] : i \in 1..Len(reference)}

\* countries.get(x): a one-atom key that is an alpha3 code finds its entry,
\* any other key is looked up as a name; no match is NOT_FOUND (KeyError)
countries_get(x) ==
    IF Len(x) = 1 /\ x[1] \in Alpha3Codes THEN x[1]
    ELSE IF x \in Keys(reference)
         THEN reference[CHOOSE i \in 1..Len(reference) : reference[i][1] = x][2]
         ELSE NOT_FOUND

IsLeap(y) == (y % 4 = 0 /\ y % 100 # 0) \/ y % 400 = 0

DaysIn(y, m) ==
    IF m = 2 THEN (IF IsLeap(y) THEN 29 ELSE 28)
    ELSE IF m \in {4, 6, 9, 11} THEN 30 ELSE 31

\* pd.to_datetime(raw, errors='coerce'): a field that is no calendar date is NaT
to_datetime(raw) ==
    IF raw.m \in 1..12 /\ raw.d \in 1..DaysIn(raw.y, raw.m)
    THEN raw.y * 10000 + raw.m * 100 + raw.d
    ELSE NaT

\* .dt.year of a parsed date
dt_year(date) == date \div 10000

\* lines 12, 15 and 31: the row with Date parsed and Country derived
WithCountry(r) ==
    [Location |-> r.Location,
     Date |-> to_datetime(r.Date),
     Organisation |-> r.Organisation,
     Mission_Status |-> r.Mission_Status,
     Country |-> replace(RawCountry(r.Location), update)]

\* line 32, one row: the alpha3 code of the row's Country
WithCode(r) ==
    [Location |-> r.Location,
     Date |-> r.Date,
     Organisation |-> r.Organisation,
     Mission_Status |-> r.Mission_Status,
     Country |-> r.Country,
     Country_Code |-> countries_get(r.Country)]

\* load_data with a default in countries.get: no row is refused
load_data_lenient(csv) ==
    [raised |-> FALSE,
     table |-> [i \in 1..Len(csv) |-> WithCode(WithCountry(csv[i]))]]

\* the body of load_data on the rows of the csv file: the normalized table, or
\* the exception of the first row whose Country countries.get does not know
load_data(csv) ==
    LET named == [i \in 1..Len(csv) |-> WithCountry(csv[i])]
    IN IF \E i \in 1..Len(named) : countries_get(named[i].Country) = NOT_FOUND
       THEN [raised |-> TRUE, table |-> <<>>]
       ELSE [raised |-> FALSE,
             table |-> [i \in 1..Len(named) |-> WithCode(named[i])]]

\* ------------------------------------------------------------ pandas helpers

Range(s) == {s[i] : i \in 1..Len(s)}

\* the numbers of a set in ascending order: the order of sorted group keys
RECURSIVE Ascending(_)
Ascending(S) ==
    IF S = {} THEN <<>>
    ELSE LET lo == CHOOSE x \in S : \A y \in S : x <= y
         IN <<lo>> \o Ascending(S \ {lo})

\* the distinct values of a sequence in order of first appearance
RECURSIVE Unique(_)
Unique(s) ==
    IF s = <<>> THEN <<>>
    ELSE LET rest == Unique(Seg(s, 1, Len(s) - 1))
         IN IF s[Len(s)] \in Range(rest) THEN rest ELSE Append(rest, s[Len(s)])

\* the frame with the dropna left out
dropna_skipped(df) == df

\* df.dropna(subset=['Date'])
dropna_Date(df) == SelectSeq(df, LAMBDA r : r.Date # NaT)

\* Series.fillna('Unknown') on one cell
fillna(x, value) == IF x = NaN THEN value ELSE x

\* sort_values() with the default ascending=True
RECURSIVE sort_values_asc(_)
sort_values_asc(s) ==
    IF s = <<>> THEN <<>>
    ELSE LET i == CHOOSE k \in 1..Len(s) :
                     /\ \A j \in 1..Len(s) : s[k].n <= s[j].n
                     /\ \A j \in 1..(k - 1) : s[k].n < s[j].n
         IN <<s[i]>> \o sort_values_asc(Seg(s, 1, i - 1) \o Seg(s, i + 1, Len(s)))

\* sort_values(ascending=False) on rows with a count n: the largest first, equal
\* counts in the order they had
RECURSIVE sort_values_desc(_)
sort_values_desc(s) ==
    IF s = <<>> THEN <<>>
    ELSE LET i == CHOOSE k \in 1..Len(s) :
                     /\ \A j \in 1..Len(s) : s[j].n <= s[k].n
                     /\ \A j \in 1..(k - 1) : s[j].n < s[k].n
         IN <<s[i]>> \o sort_values_desc(Seg(s, 1, i - 1) \o Seg(s, i + 1, Len(s)))

\* .head(n)
head(s, n) == Seg(s, 1, Min2(n, Len(s)))

\* the names the organisation-centred datasets use, in sorted order
OrgNames ==
    <<"Arianespace", "Boeing", "CASC", "General Dynamics", "ISRO", "Lockheed",
      "MHI", "Martin Marietta", "NASA", "Northrop", "RVSN USSR", "SpaceX",
      "ULA", "US Air Force", "US Navy", "VKS RF">>

\* the Country values a frame can hold, in sorted order
CountryNames ==
    <<China, (<<"France">>), IranIR, (<<"Japan">>), Kazakhstan, KoreaDPR, KoreaRep,
      RussianFederation, USA, USSR, UKGBNI, (<<"United States of America">>),
      (<<"Unknown">>)>>

\* the values of a set in the order a sorted list gives them
InOrder(order, S) == SelectSeq(order, LAMBDA k : k \in S)

\* the years of the rows with a Date: groupby drops the rows whose key is NaN
Years(df) == {dt_year(df[i].Date) : i \in {j \in 1..Len(df) : df[j].Date # NaT}}

RECURSIVE SumN(_)
SumN(s) == IF s = <<>> THEN 0 ELSE s[1].n + SumN(Tail(s))

\* a missing number, and the quotient num/den kept exact
NaNumber == [num |-> 0, den |-> 0]
Quotient(a, b) == [num |-> a, den |-> b]

\* ------------------------------------------------------------ the analyses

analysis_options ==
    <<"Number of Launches by Organisation",
      "Number of Launches by Country (Choropleth)",
      "Launches Over Time (Yearly and Monthly)",
      "Mission Success and Failures",
      "Cold War Space Race: USA vs USSR",
      "Top Organization per Year",
      "Mission Failures Over Time">>

\* df_data['Organisation'].value_counts(): one row per organisation, the most
\* frequent first, equal counts in order of first appearance
no_of_launches_per_company(df) ==
    LET orgs == Unique([i \in 1..Len(df) |-> df[i].Organisation])
    IN sort_values_desc([k \in 1..Len(orgs) |->
           [Organisation |-> orgs[k],
            n |-> Len(SelectSeq(df, LAMBDA r : r.Organisation = orgs[k]))]])

\* groupby(['Country', 'Country Code']).size(), the groups in sorted order
launches_by_country(df) ==
    LET names == InOrder(CountryNames, {df[i].Country : i \in 1..Len(df)})
    IN [k \in 1..Len(names) |->
           [Country |-> names[k],
            Country_Code |-> (CHOOSE r \in Range(df) : r.Country = names[k]).Country_Code,
            n |-> Len(SelectSeq(df, LAMBDA r : r.Country = names[k]))]]

\* groupby(Date.dt.year).size(): one row per year, the years ascending
PerYear(df) ==
    LET ys == Ascending(Years(df))
    IN [k \in 1..Len(ys) |->
           [Year |-> ys[k],
            n |-> Len(SelectSeq(df, LAMBDA r : r.Date # NaT /\ dt_year(r.Date) = ys[k]))]]

\* the window of rolling(30)
Window == 30

\* groupby('Date').size() with the column rolling(30).mean() of the counts
launches_month_on_month(df) ==
    LET ds == Ascending({df[i].Date : i \in 1..Len(df)} \ {NaT})
        counts == [k \in 1..Len(ds) |->
                      [Date |-> ds[k], n |-> Len(SelectSeq(df, LAMBDA r : r.Date = ds[k]))]]
    IN [k \in 1..Len(ds) |->
           [Date |-> ds[k],
            n |-> counts[k].n,
            Rolling_Average |->
                IF k < Window THEN NaNumber
                ELSE Quotient(SumN(Seg(counts, k - Window + 1, k)), Window)]]

\* groupby([Year, 'Mission_Status']).size() filtered to 'Failure'
failures_year_on_year(df) ==
    PerYear(SelectSeq(df, LAMBDA r : r.Mission_Status = "Failure"))

cold_war_update ==
    << <<RussianFederation, USSR>>,
       <<Kazakhstan, USSR>> >>

\* the recoding with the condition on the year left out
RecodeAnyYear(r) ==
    [r EXCEPT !.Country = replace(fillna(r.Country, <<"Unknown">>), cold_war_update)]

\* lines 155 and 158 on one row of the frame without null dates
Recode(r) ==
    LET filled == fillna(r.Country, <<"Unknown">>)
    IN [r EXCEPT !.Country = IF dt_year(r.Date) <= 1991
                             THEN replace(filled, cold_war_update)
                             ELSE filled]

\* groupby([Year, key]).size() for a string column: the years ascending, the
\* values of the column in sorted order within a year
PerYearAnd(df, order, col) ==
    LET ys == Ascending(Years(df))
        InYear(y) == SelectSeq(df, LAMBDA r : dt_year(r.Date) = y)
        Block(y) ==
            LET rows == InYear(y)
                ks == InOrder(order, {rows[i][col] : i \in 1..Len(rows)})
            IN [k \in 1..Len(ks) |->
                   [Year |-> y, key |-> ks[k],
                    n |-> Len(SelectSeq(rows, LAMBDA r : r[col] = ks[k]))]]
        Cat[k \in 0..Len(ys)] ==
            IF k = 0 THEN <<>> ELSE Cat[k - 1] \o Block(ys[k])
    IN Cat[Len(ys)]

\* the Cold War launches with the isin filter left out
cold_war_launches_unfiltered(df) ==
    PerYearAnd(SelectSeq(df, LAMBDA r : dt_year(r.Date) <= 1991),
               CountryNames, "Country")

\* lines 161 to 167: the launches of USA and USSR up to 1991, per year
cold_war_launches_USA_USSR(df) ==
    LET cold_war == SelectSeq(df, LAMBDA r : dt_year(r.Date) <= 1991)
        cold_war_launches == PerYearAnd(cold_war, CountryNames, "Country")
    IN SelectSeq(cold_war_launches, LAMBDA g : g.key \in {USA, USSR})

\* head(10)
TopN == 10

\* lines 192 and 193: the total of every organisation, the largest first, cut to 10
top10_organizations(launches) ==
    LET orgs == InOrder(OrgNames, {launches[i].key : i \in 1..Len(launches)})
        totals == [k \in 1..Len(orgs) |->
                      [Organisation |-> orgs[k],
                       n |-> SumN(SelectSeq(launches, LAMBDA g : g.key = orgs[k]))]]
    IN head(sort_values_desc(totals), TopN)

\* merge(top10['Organisation'], on='Organisation', how='inner')
merge_inner(launches, top10) ==
    SelectSeq(launches, LAMBDA g : \E k \in 1..Len(top10) : top10[k].Organisation = g.key)

\* the division of two columns: the rows are matched by index label, and after
\* reset_index the label of a row is its position
DivideByIndex(failures, totals) ==
    [k \in 1..Len(failures) |->
        IF k <= Len(totals)
        THEN Quotient(100 * failures[k].n, totals[k].n)
        ELSE NaNumber]

\* lines 205 to 210
mission_failures_year_on_year(df) ==
    LET total == PerYear(df)
        failures == failures_year_on_year(df)
        pct == DivideByIndex(failures, total)
    IN [k \in 1..Len(failures) |->
           [Year |-> failures[k].Year,
            Failures |-> failures[k].n,
            Percentage |-> pct[k]]]

\* ------------------------------------------------------------------ state

VARIABLES
    file,       \* the rows of 'Space+Missions+(start)/mission_launches.csv'
    cache,      \* what st.cache_data holds for load_data
    df_data,    \* the frame the name df_data is bound to in the script run
    selected,   \* the value of the selectbox
    pc,         \* where the script run is: "load", "dispatch", or "idle" between runs
    out,        \* what the run has put on the page
    err,        \* the exception that ended the run, "" for none
    reads,      \* how many times read_csv has run
    builds,     \* how many times load_data has returned a table
    hit         \* whether the last call of load_data was answered from the cache

vars == <<file, cache, df_data, selected, pc, out, err, reads, builds, hit>>

Empty == [full |-> FALSE, value |-> <<>>]
Stored(table) == [full |-> TRUE, value |-> table]

\* a load_data without the decorator: every call runs the body
CacheMissAlways(c) == TRUE

\* a cache that hands out the very frame the previous run was bound to
CachedValueShared(c, previous) == previous

\* @st.cache_data: the call runs the body only when nothing is stored
CacheMiss(c) == ~c.full

\* @st.cache_data: a stored value is handed out as a fresh copy, so the frame
\* a previous run was bound to, and changed, is not what the caller gets
CachedValue(c, previous) == c.value

\* pd.to_datetime on a column that already holds dates leaves it as it is
to_datetime_parsed(df) == df

\* ----------------------------------------------------------------- datasets

RawDates ==
    {[y |-> 1991, m |-> 12, d |-> 31],
     [y |-> 1992, m |-> 1, d |-> 1],
     [y |-> 1991, m |-> 2, d |-> 30]}

RawRow(loc, date, org, status) ==
    [Location |-> loc, Date |-> date, Organisation |-> org, Mission_Status |-> status]

SeqsUpTo(S, n) == UNION {[1..k -> S] : k \in 1..n}

Statuses == {"Success", "Failure", "Partial Failure", "failure"}

StatusFiles ==
    SeqsUpTo({RawRow(<<"LC-39A", ",", " ", "USA">>, dt, "NASA", st) :
                 dt \in RawDates, st \in Statuses}, MaxRowsStatus)

Locations ==
    {<<"Site 1/5", ",", " ", "Baikonur Cosmodrome", ",", " ", "Kazakhstan">>,
     <<"Plesetsk Cosmodrome", ",", " ", "Russia">>,
     <<"Cape Canaveral AFS", ",", " ", "Florida", ",", " ", "USA">>,
     <<"Kourou", ",", " ", "France">>,
     <<"Sea Launch", ",", "Atlantis">>}

CountryFiles ==
    SeqsUpTo({RawRow(loc, dt, "NASA", "Success") :
                 loc \in Locations, dt \in RawDates}, MaxRowsCountry)

LocAtoms == {",", " ", "Russia", "USA", "Iran"}

LocFiles ==
    {<<RawRow(loc, [y |-> 1991, m |-> 12, d |-> 31], "NASA", "Success")>> :
        loc \in SeqsUpTo(LocAtoms, MaxLocLen)}

\* n organisations with one launch each in 1991, of which the organisations
\* a..b have a second launch in 1992; with undated, the Date of the last
\* organisation's first launch cannot be parsed
OrgFile(n, a, b, undated) ==
    [i \in 1..n |->
        RawRow(<<"LC-39A", ",", " ", "USA">>,
               IF undated /\ i = n THEN [y |-> 1991, m |-> 2, d |-> 30]
                                   ELSE [y |-> 1991, m |-> 12, d |-> 31],
               OrgNames[i], "Success")]
    \o [j \in 1..(IF a <= b THEN b - a + 1 ELSE 0) |->
        RawRow(<<"LC-39A", ",", " ", "USA">>, [y |-> 1992, m |-> 1, d |-> 1],
               OrgNames[a + j - 1], "Success")]

OrgFiles ==
    {OrgFile(n, a, b, u) : n \in 1..NumOrgs, a \in 1..NumOrgs, b \in 0..NumOrgs,
                           u \in BOOLEAN}

\* -------------------------------------------------------------------- steps

Begin(f) ==
    /\ file = f
    /\ cache = Empty
    /\ df_data = <<>>
    /\ selected = analysis_options[1]
    /\ pc = "load"
    /\ out = None
    /\ err = ""
    /\ reads = 0
    /\ builds = 0
    /\ hit = FALSE

Init == \E f \in CountryFiles : Begin(f)
InitStatus == \E f \in StatusFiles : Begin(f)
InitLoc == \E f \in LocFiles : Begin(f)
InitOrg == \E f \in OrgFiles : Begin(f)

\* line 36: df_data = load_data()
LoadData ==
    /\ pc = "load"
    /\ IF CacheMiss(cache)
       THEN LET res == load_data(file)
            IN /\ reads' = reads + 1
               /\ hit' = FALSE
               /\ IF res.raised
                  THEN /\ err' = "KeyError"
                       /\ pc' = "idle"
                       /\ df_data' = <<>>
                       /\ UNCHANGED <<cache, builds>>
                  ELSE /\ cache' = Stored(res.table)
                       /\ df_data' = res.table
                       /\ builds' = builds + 1
                       /\ pc' = "dispatch"
                       /\ err' = ""
       ELSE /\ df_data' = CachedValue(cache, df_data)
            /\ hit' = TRUE
            /\ pc' = "dispatch"
            /\ UNCHANGED <<cache, reads, builds, err>>
    /\ UNCHANGED <<file, selected, out>>

Branch(name) == pc = "dispatch" /\ selected = name

Done == pc' = "idle" /\ UNCHANGED <<file, cache, selected, err, reads, builds, hit>>

LaunchesByOrganisation ==
    /\ Branch("Number of Launches by Organisation")
    /\ out' = [kind |-> "bar", rows |-> no_of_launches_per_company(df_data)]
    /\ UNCHANGED df_data
    /\ Done

LaunchesByCountry ==
    /\ Branch("Number of Launches by Country (Choropleth)")
    /\ out' = [kind |-> "choropleth", rows |-> launches_by_country(df_data)]
    /\ UNCHANGED df_data
    /\ Done

LaunchesOverTime ==
    /\ Branch("Launches Over Time (Yearly and Monthly)")
    /\ LET df == dropna_Date(to_datetime_parsed(df_data))
       IN /\ df_data' = df
          /\ out' = [kind |-> "lines",
                     launches_per_year |-> PerYear(df),
                     launches_month_on_month |-> launches_month_on_month(df)]
    /\ Done

MissionSuccessAndFailures ==
    /\ Branch("Mission Success and Failures")
    /\ LET df == dropna_Date(to_datetime_parsed(df_data))
       IN /\ df_data' = df
          /\ out' = [kind |-> "counts",
                     successful_missions |->
                         Len(SelectSeq(df, LAMBDA r : r.Mission_Status = "Success")),
                     failed_missions |->
                         Len(SelectSeq(df, LAMBDA r : r.Mission_Status = "Failure")),
                     failures |-> failures_year_on_year(df)]
    /\ Done

ColdWarSpaceRace ==
    /\ Branch("Cold War Space Race: USA vs USSR")
    /\ LET dated == dropna_Date(to_datetime_parsed(df_data))
           df == [i \in 1..Len(dated) |-> Recode(dated[i])]
           rows == cold_war_launches_USA_USSR(df)
       IN /\ df_data' = df
          /\ out' = IF rows = <<>>
                    THEN [kind |-> "no data", rows |-> <<>>]
                    ELSE [kind |-> "pie", rows |-> rows]
    /\ Done

TopOrganizationPerYear ==
    /\ Branch("Top Organization per Year")
    /\ LET df == dropna_Date(to_datetime_parsed(df_data))
           launches == PerYearAnd(df, OrgNames, "Organisation")
           top10 == top10_organizations(launches)
       IN /\ df_data' = df
          /\ out' = [kind |-> "stacked",
                     top10_organizations |-> top10,
                     rows |-> merge_inner(launches, top10)]
    /\ Done

MissionFailuresOverTime ==
    /\ Branch("Mission Failures Over Time")
    /\ out' = [kind |-> "percentage", rows |-> mission_failures_year_on_year(df_data)]
    /\ UNCHANGED df_data
    /\ Done

\* the user picks another analysis: the script runs again from the top
Select ==
    /\ pc = "idle"
    /\ err = ""
    /\ \E s \in Range(analysis_options) :
          /\ s # selected
          /\ selected' = s
    /\ pc' = "load"
    /\ out' = None
    /\ UNCHANGED <<file, cache, df_data, err, reads, builds, hit>>

\* the user reruns the script with the selectbox as it is
Rerun ==
    /\ pc = "idle"
    /\ cache.full \/ reads < MaxReads
    /\ pc' = "load"
    /\ out' = None
    /\ err' = ""
    /\ UNCHANGED <<file, cache, df_data, selected, reads, builds, hit>>

Next ==
    \/ LoadData
    \/ LaunchesByOrganisation
    \/ LaunchesByCountry
    \/ LaunchesOverTime
    \/ MissionSuccessAndFailures
    \/ ColdWarSpaceRace
    \/ TopOrganizationPerYear
    \/ MissionFailuresOverTime
    \/ Select
    \/ Rerun

Spec == Init /\ [][Next]_vars
SpecStatus == InitStatus /\ [][Next]_vars
SpecLoc == InitLoc /\ [][Next]_vars
SpecOrg == InitOrg /\ [][Next]_vars

\* ------------------------------------------------------------- properties

\* the rows of the csv file whose Date parses, and those of one year
Dated == {i \in 1..Len(file) : to_datetime(file[i].Date) # NaT}
InYear(y) == {i \in Dated : dt_year(to_datetime(file[i].Date)) = y}
FailuresIn(y) == {i \in InYear(y) : file[i].Mission_Status = "Failure"}

PercentageShown == pc = "idle" /\ out.kind = "percentage"

\* C1: in 'Mission Failures Over Time' every year Y of the output series has
\* Percentage(Y) = 100 * Failures(Y) / Total(Y), both counts being those of the
\* year Y itself.
C1_PercentageMatchedByYear ==
    PercentageShown =>
        \A k \in 1..Len(out.rows) :
            LET row == out.rows[k]
            IN /\ row.Percentage.den # 0
               /\ row.Percentage.num * Cardinality(InYear(row.Year))
                     = 100 * Cardinality(FailuresIn(row.Year)) * row.Percentage.den

\* C2: in 'Mission Failures Over Time' every Percentage of the output series
\* lies between 0 and 100.
C2_PercentageWithinBounds ==
    PercentageShown =>
        \A k \in 1..Len(out.rows) :
            LET p == out.rows[k].Percentage
            IN p.den > 0 /\ 0 <= p.num /\ p.num <= 100 * p.den

CountsShown == pc = "idle" /\ out.kind = "counts"

WithStatus(S, status) == Cardinality({i \in S : file[i].Mission_Status = status})

\* C6 as stated: 'Mission Success and Failures' reports the number of rows of
\* the normalized table with status 'Success' and with status 'Failure', a row
\* with a null Date included.
C6_CountsOverAllRows ==
    CountsShown =>
        /\ out.successful_missions = WithStatus(1..Len(file), "Success")
        /\ out.failed_missions = WithStatus(1..Len(file), "Failure")

\* C6 amended: 'Mission Success and Failures' reports the number of rows with
\* a non-null Date whose status is exactly 'Success', and the number of rows
\* with a non-null Date whose status is exactly 'Failure'; rows with another
\* status, and rows with a null Date, are counted in neither.
C6_CountsOverDatedRows ==
    CountsShown =>
        /\ out.successful_missions = WithStatus(Dated, "Success")
        /\ out.failed_missions = WithStatus(Dated, "Failure")

C6_Witness ==
    /\ CountsShown
    /\ \E i, j, k \in 1..Len(file) :
          /\ i \notin Dated /\ file[i].Mission_Status = "Success"
          /\ j \in Dated /\ file[j].Mission_Status = "Failure"
          /\ k \in Dated /\ file[k].Mission_Status \in {"Partial Failure", "failure"}

\* what lines 12 to 32 make of the csv file when no row is refused
Normalized == load_data(file).table

\* the Country load_data derives for row i of the csv file
Resolved(i) == replace(RawCountry(file[i].Location), update)

\* the names and codes countries.get accepts
Accepted == Keys(reference) \cup {<<c>> : c \in Alpha3Codes}

\* C3: whatever analyses were selected before, the cached table is the
\* normalized table, and the frame an analysis starts from is the normalized
\* table: no recoding, fillna or dropping of rows by an earlier analysis shows.
C3_CachedTableUnchanged ==
    /\ cache.full => cache.value = Normalized
    /\ pc = "dispatch" => df_data = Normalized

\* an earlier run has changed its frame, and the script runs again
C3_Witness ==
    /\ pc = "load"
    /\ cache.full
    /\ df_data # cache.value
    /\ \E i \in 1..Len(df_data) : df_data[i].Country = USSR

\* C4 as stated: the csv file is read at most once in a process.
C4_ReadAtMostOnce == reads <= 1

\* C4 amended: the csv file is normalized into a table at most once: the first
\* call of load_data that succeeds reads the file, builds the table and caches
\* it, and every later call returns the cached table without reading the file
\* again; a call that raises caches nothing, so that the next call reads the
\* file again.
C4_BuiltAtMostOnce ==
    /\ builds <= 1
    /\ cache.full => reads = 1 /\ builds = 1
    /\ ~cache.full => builds = 0
    /\ (hit /\ pc = "dispatch") => df_data = cache.value

C4_Witness == hit /\ pc = "dispatch" /\ reads = 1 /\ builds = 1

FailFast(raised) ==
    /\ (\E i \in 1..Len(file) : Resolved(i) \notin Accepted) =>
          /\ ~cache.full
          /\ df_data = <<>>
          /\ pc # "dispatch"
          /\ (pc = "idle" => err = raised /\ out = None)
    /\ cache.full =>
          \A i \in 1..Len(cache.value) : cache.value[i].Country_Code \in Alpha3Codes

ColdWarShown == pc = "idle" /\ out.kind \in {"pie", "no data"}

\* the rows of the normalized table with a Date, which the Cold War step recodes
DatedRows == SelectSeq(Normalized, LAMBDA r : r.Date # NaT)

\* C7: after the Cold War recoding a row of 1991 or earlier has Country 'USSR'
\* where it had 'Russian Federation' or 'Kazakhstan', a row after 1991 has the
\* Country it was resolved to, and no row of the view has Country 'Russian
\* Federation' or 'Kazakhstan'.
C7_ColdWarRecoding ==
    ColdWarShown =>
        /\ Len(df_data) = Len(DatedRows)
        /\ \A i \in 1..Len(df_data) :
              /\ df_data[i].Date = DatedRows[i].Date
              /\ dt_year(df_data[i].Date) <= 1991 =>
                    /\ df_data[i].Country \notin {RussianFederation, Kazakhstan}
                    /\ df_data[i].Country =
                          IF DatedRows[i].Country \in {RussianFederation, Kazakhstan}
                          THEN USSR ELSE DatedRows[i].Country
              /\ dt_year(df_data[i].Date) > 1991 =>
                    df_data[i].Country = DatedRows[i].Country
        /\ \A k \in 1..Len(out.rows) :
              out.rows[k].key \notin {RussianFederation, Kazakhstan}

C7_Witness ==
    /\ ColdWarShown
    /\ \E i, j \in 1..Len(df_data) :
          /\ dt_year(df_data[i].Date) <= 1991 /\ DatedRows[i].Country = Kazakhstan
          /\ dt_year(df_data[j].Date) > 1991 /\ df_data[j].Country = RussianFederation

\* the rows of the csv file that count for USA or USSR in the Cold War view
ColdWarRows(c) ==
    {i \in Dated :
        /\ dt_year(to_datetime(file[i].Date)) <= 1991
        /\ Resolved(i) \in (IF c = USA THEN {USA} ELSE {USSR, RussianFederation, Kazakhstan})}

\* C8: the Cold War view gives the 'no data available' message, and no chart,
\* exactly when no row with a Date of 1991 or earlier has recoded Country USA
\* or USSR; otherwise it charts the launch counts of USA and USSR only.
C8_NoDataSignal ==
    ColdWarShown =>
        /\ out.kind = "no data" <=> ColdWarRows(USA) \cup ColdWarRows(USSR) = {}
        /\ \A k \in 1..Len(out.rows) : out.rows[k].key \in {USA, USSR}
        /\ \A c \in {USA, USSR} :
              SumN(SelectSeq(out.rows, LAMBDA g : g.key = c)) = Cardinality(ColdWarRows(c))

\* no data, though the file has a launch of 1991 and a launch of USA
C8_Witness ==
    /\ ColdWarShown
    /\ out.kind = "no data"
    /\ \E i, j \in Dated :
          /\ dt_year(to_datetime(file[i].Date)) <= 1991
          /\ Resolved(j) = USA

StackedShown == pc = "idle" /\ out.kind = "stacked"

\* the organisations with a dated launch, and the dated launches of one
DatedOrgs == {file[i].Organisation : i \in Dated}
TotalOf(o) == Cardinality({i \in Dated : file[i].Organisation = o})

\* C9: in 'Top Organization per Year' the selected set holds min(10, number of
\* distinct organisations) organisations, each with a total launch count over
\* all years at least that of every organisation not selected, and the
\* per-year table holds exactly the (year, organisation) rows of the selected
\* organisations.  The organisations and counts are those of the rows with a
\* Date, the ones the per-year table is grouped from.
C9_TopTen ==
    StackedShown =>
        LET sel == {out.top10_organizations[k].Organisation :
                        k \in 1..Len(out.top10_organizations)}
        IN /\ Len(out.top10_organizations) = Cardinality(sel)
           /\ sel \subseteq DatedOrgs
           /\ Cardinality(sel) = Min2(10, Cardinality(DatedOrgs))
           /\ \A o \in sel : \A q \in DatedOrgs \ sel : TotalOf(o) >= TotalOf(q)
           /\ {<<g.Year, g.key, g.n>> : g \in Range(out.rows)}
                 = {<<y, o, Cardinality({i \in InYear(y) : file[i].Organisation = o})>> :
                       y \in {dt_year(to_datetime(file[i].Date)) : i \in Dated},
                       o \in sel} \ (Int \X sel \X {0})
           /\ Len(out.rows) = Cardinality(Range(out.rows))

\* more than ten organisations, and one left out has fewer launches than one kept
C9_Witness ==
    /\ StackedShown
    /\ Cardinality(DatedOrgs) > 10
    /\ Len(out.top10_organizations) = 10
    /\ \E q \in DatedOrgs :
          /\ \A k \in 1..10 : out.top10_organizations[k].Organisation # q
          /\ \E k \in 1..10 : out.top10_organizations[k].n > TotalOf(q)

\* the part of a string after the last separator ', ', the whole of it when
\* it holds none
AfterLastSeparator(s) ==
    LET seps == {i \in 1..Len(s) : SepAt(s, i)}
    IN IF seps = {} THEN s
       ELSE Seg(s, (CHOOSE i \in seps : \A j \in seps : j <= i) + 2, Len(s))

Occurrences(s) == Cardinality({i \in 1..Len(s) : SepAt(s, i)})

\* C10: the Country of a row is the last segment of its Location split on
\* ', ', replaced by its alias when it is a key of the alias table and left as
\* it is otherwise; substituting aliases again changes nothing, no alias being
\* a key of the table.
C10_CountryFromLocation ==
    /\ cache.full =>
          \A i \in 1..Len(cache.value) :
              LET row == cache.value[i]
                  token == AfterLastSeparator(row.Location)
              IN /\ row.Location = file[i].Location
                 /\ row.Country = IF \E k \in 1..Len(update) : update[k][1] = token
                                  THEN update[CHOOSE k \in 1..Len(update) :
                                                  update[k][1] = token][2]
                                  ELSE token
                 /\ replace(row.Country, update) = row.Country
    /\ \A k \in 1..Len(update) : replace(update[k][2], update) = update[k][2]

\* a Location with two separators whose last segment is an alias
C10_Witness ==
    /\ cache.full
    /\ \E i \in 1..Len(cache.value) :
          /\ Occurrences(cache.value[i].Location) = 2
          /\ RawCountry(cache.value[i].Location) = <<"Iran">>
          /\ cache.value[i].Country = IranIR

====
